---- MODULE Spec2Model ----
(***************************************************************************)
(* A model of src/FindMotif.py: class FindMotif (motif alignment loader,   *)
(* PSSM builder, contig reader, genome scanner).                           *)
(*                                                                         *)
(* Text is a sequence of one-character strings.  Real numbers are fixed    *)
(* point: logarithms are integers in units of 1/Scale, frequencies are     *)
(* exact fractions <<numerator, denominator>>.  A call that raises leaves  *)
(* the fields as the code left them at the raise and ends the process.     *)
(***************************************************************************)
EXTENDS Integers, Sequences, FiniteSets, TLC

(***************************************************************************)
(* Bounds of the model.                                                    *)
(***************************************************************************)
MaxMotifLines == 2      \* lines of the motif file
MaxSeqLines == 3        \* lines of the sequence file
MaxK == 2               \* largest number_of_hits requested
MaxInformational == 2   \* no model is built once informational is this long

(***************************************************************************)
(* Numbers.                                                                *)
(***************************************************************************)
None == -1              \* Python's None where the code holds an int or None
FracBits == 12
Scale == 4096           \* 2^FracBits: one unit of a logarithm is 1/Scale
Ln2Num == 2839          \* ln 2 = 0.6931 = Ln2Num / Scale
BgScale == 100000       \* background frequencies are in units of 1/BgScale
BScale == 100           \* the pseudocount constant B is in units of 1/BScale
DefaultB == 10          \* B=0.1, the default of MakePSSM
InfoThreshold == 5120   \* 1.25 bits, in units of 1/Scale
InfoBase == 8192        \* 2 bits, in units of 1/Scale
MainThreshold == -1073741824    \* -2**30, the threshold main() passes
TestMaxPosition == 50000        \* test-mode limit on start_position
TestMaxSeqNum == 100            \* test-mode limit on seq_num

RECURSIVE Pow2(_)
Pow2(k) == IF k = 0 THEN 1 ELSE 2 * Pow2(k - 1)

RECURSIVE FloorLog2(_)
FloorLog2(n) == IF n < 2 THEN 0 ELSE 1 + FloorLog2(n \div 2)

\* fractional bits of log2(m / Scale) for Scale <= m < 2 * Scale
RECURSIVE FracLog2(_, _)
FracLog2(m, bit) ==
    IF bit = 0 THEN 0
    ELSE LET m2 == (m * m) \div Scale
         IN  IF m2 >= 2 * Scale
             THEN bit + FracLog2(m2 \div 2, bit \div 2)
             ELSE FracLog2(m2, bit \div 2)

\* log2 of the integer n >= 1, in units of 1/Scale
Log2Compute(n) ==
    LET k == FloorLog2(n)
        m == IF k >= FracBits THEN n \div Pow2(k - FracBits)
                              ELSE n * Pow2(FracBits - k)
    IN  k * Scale + FracLog2(m, Scale \div 2)

\* the integer square root of n >= 1 by Newton's iteration from x
RECURSIVE ISqrt(_, _)
ISqrt(n, x) ==
    LET y == (x + n \div x) \div 2
    IN  IF y >= x THEN x ELSE ISqrt(n, y)

\* math.sqrt(n), in units of 1/BScale
SqrtB(n) == IF n = 0 THEN 0 ELSE ISqrt(n * BScale * BScale, n * BScale * BScale)

\* the default bg_freq of __init__, in units of 1/BgScale
DefaultBgFreq ==
    [s \in {"A", "T", "G", "C"} |->
        IF s \in {"A", "T"} THEN 33264 ELSE 16736]

\* the logarithms the model takes most often, computed once
Log2Memo ==
    LET Bs == {0, DefaultB} \cup {SqrtB(n) : n \in 0..MaxMotifLines}
        bgs == {DefaultBgFreq[s] : s \in DOMAIN DefaultBgFreq}
        nums == {c * BScale * BgScale + B * bg :
                    c \in 0..MaxMotifLines, B \in Bs, bg \in bgs}
        dens == {(n * BScale + B) * BgScale : n \in 0..MaxMotifLines, B \in Bs}
    IN  [n \in (nums \cup dens \cup bgs \cup {BgScale}) \ {0} |-> Log2Compute(n)]

Log2Int(n) == IF n \in DOMAIN Log2Memo THEN Log2Memo[n] ELSE Log2Compute(n)

\* math.log2 of the fraction num/den (num, den >= 1), in units of 1/Scale
Log2Frac(num, den) == Log2Int(num) - Log2Int(den)

\* math.log of the fraction num/den (num, den >= 1), in units of 1/Scale
LnFrac(num, den) == (Log2Frac(num, den) * Ln2Num) \div Scale

(***************************************************************************)
(* Text.                                                                   *)
(***************************************************************************)
upper(c) ==
    CASE c = "a" -> "A"
      [] c = "c" -> "C"
      [] c = "g" -> "G"
      [] c = "t" -> "T"
      [] c = "h" -> "H"
      [] c = "m" -> "M"
      [] c = "n" -> "N"
      [] OTHER   -> c

Upper(s) == [i \in 1..Len(s) |-> upper(s[i])]

IsSpace(c) == c = " "

RECURSIVE LStrip(_)
LStrip(s) == IF s # <<>> /\ IsSpace(Head(s)) THEN LStrip(Tail(s)) ELSE s

RECURSIVE RStrip(_)
RStrip(s) ==
    IF s # <<>> /\ IsSpace(s[Len(s)]) THEN RStrip(SubSeq(s, 1, Len(s) - 1)) ELSE s

strip(s) == LStrip(RStrip(s))

\* the code point of a character, for Python's ordering of strings
ord(c) ==
    CASE c = " " -> 32
      [] c = "#" -> 35
      [] c = ">" -> 62
      [] c = "A" -> 65
      [] c = "C" -> 67
      [] c = "G" -> 71
      [] c = "H" -> 72
      [] c = "M" -> 77
      [] c = "N" -> 78
      [] c = "T" -> 84
      [] c = "a" -> 97
      [] c = "c" -> 99
      [] c = "g" -> 103
      [] c = "h" -> 104
      [] c = "m" -> 109
      [] c = "n" -> 110
      [] c = "t" -> 116
      [] OTHER   -> 0

\* s < t for Python strings
RECURSIVE StrLess(_, _)
StrLess(s, t) ==
    IF t = <<>> THEN FALSE
    ELSE IF s = <<>> THEN TRUE
    ELSE IF ord(Head(s)) # ord(Head(t)) THEN ord(Head(s)) < ord(Head(t))
    ELSE StrLess(Tail(s), Tail(t))

(***************************************************************************)
(* Dictionaries are functions; a missing key is a key outside DOMAIN.      *)
(***************************************************************************)
EmptyDict == [k \in {} |-> 0]

DictUpdate(d, e) ==
    [k \in (DOMAIN d) \cup (DOMAIN e) |-> IF k \in DOMAIN e THEN e[k] ELSE d[k]]

(***************************************************************************)
(* FindMotif.__init__                                                      *)
(***************************************************************************)
\* the keys of the default bg_freq, in the order the dict lists them
SymOrder == <<"A", "T", "G", "C">>

\* a table a caller may pass: the uniform distribution over the alphabet
UniformBgFreq == [s \in {"A", "T", "G", "C"} |-> 25000]

\* bg_freq arguments: EmptyDict stands for None and for {} (both are falsy)
BgArgs == {EmptyDict, UniformBgFreq}

\* the fields a raise at line 45 leaves behind: bg_freq and the rest unset
UnsetObject ==
    [bg_freq |-> EmptyDict, log_p |-> EmptyDict, log_q |-> EmptyDict,
     q |-> EmptyDict, N |-> 0, motif_len |-> 0,
     motif_sequences |-> <<>>, informational |-> <<>>]

\* __init__(bg_freq=bg): self.bg_freq is assigned only when bg is falsy, so
\* the comprehension at line 45 raises AttributeError for a supplied table.
\* motif_sequences and informational start as one shared empty list; the
\* only appends to informational need motif_len > 0, which GetMotif sets
\* after it has rebound motif_sequences to a list of its own.
InitObject(bg) ==
    IF bg # EmptyDict
    THEN [obj |-> UnsetObject, err |-> "AttributeError"]
    ELSE [obj |-> [UnsetObject EXCEPT
                     !.bg_freq = DefaultBgFreq,
                     !.log_p = [s \in DOMAIN DefaultBgFreq |->
                                  LnFrac(DefaultBgFreq[s], BgScale)]],
          err |-> "none"]

(***************************************************************************)
(* FindMotif.GetMotif                                                      *)
(***************************************************************************)
MotifAlphabet == {"A", "C", "G", "T", "a", "c", "g", "t"}

\* the index of the last whitespace of s, 0 when there is none
RECURSIVE LastSpace(_, _)
LastSpace(s, i) ==
    IF i = 0 THEN 0 ELSE IF IsSpace(s[i]) THEN i ELSE LastSpace(s, i - 1)

\* group 1 of re.search('\s([ACGTacgt]+)$', line), <<>> when there is no match
MotifMatch(line) ==
    LET i == LastSpace(line, Len(line))
        run == SubSeq(line, i + 1, Len(line))
    IN  IF i > 0 /\ run # <<>> /\ \A j \in 1..Len(run) : run[j] \in MotifAlphabet
        THEN run ELSE <<>>

\* the loop over the lines of the motif file
RECURSIVE GetMotifLoop(_, _, _)
GetMotifLoop(lines, motif_len, seqs) ==
    IF lines = <<>>
    THEN [motif_len |-> motif_len, motif_sequences |-> seqs, err |-> "none"]
    ELSE LET motif == MotifMatch(strip(Head(lines)))
         IN  IF motif = <<>>
             THEN GetMotifLoop(Tail(lines), motif_len, seqs)
             ELSE LET ml == IF motif_len = None THEN Len(motif) ELSE motif_len
                  IN  IF ml = Len(motif)
                      THEN GetMotifLoop(Tail(lines), ml, Append(seqs, Upper(motif)))
                      ELSE [motif_len |-> ml, motif_sequences |-> seqs,
                            err |-> "SystemExit"]

\* GetMotif with motif_len started at 0 rather than None, so that a file
\* without motifs leaves a width range() accepts
GetMotifOnZeroLen(self, lines) ==
    LET r == GetMotifLoop(lines, None, <<>>)
    IN  IF r.err # "none"
        THEN [obj |-> [self EXCEPT !.motif_sequences = r.motif_sequences],
              err |-> r.err]
        ELSE [obj |-> [self EXCEPT !.motif_sequences = r.motif_sequences,
                                   !.N = Len(r.motif_sequences),
                                   !.motif_len = IF r.motif_len = None THEN 0
                                                 ELSE r.motif_len],
              err |-> "none"]

\* GetMotif on the object self, the motif file holding lines
GetMotifOn(self, lines) ==
    LET r == GetMotifLoop(lines, None, <<>>)
    IN  IF r.err # "none"
        THEN [obj |-> [self EXCEPT !.motif_sequences = r.motif_sequences],
              err |-> r.err]
        ELSE [obj |-> [self EXCEPT !.motif_sequences = r.motif_sequences,
                                   !.N = Len(r.motif_sequences),
                                   !.motif_len = r.motif_len],
              err |-> "none"]

(***************************************************************************)
(* FindMotif.ReadContigs                                                   *)
(***************************************************************************)
\* the loop over the lines of the sequence file; sequence_none says that the
\* local variable sequence holds None
RECURSIVE ReadContigsLoop(_, _, _, _, _)
ReadContigsLoop(lines, hdrs, seqs, sequence, sequence_none) ==
    IF lines = <<>>
    THEN \* sequences.append(sequence); total_len += len(sequence)
         IF sequence_none
         THEN [headers |-> hdrs, sequences |-> seqs, err |-> "TypeError"]
         ELSE [headers |-> hdrs, sequences |-> Append(seqs, sequence),
               err |-> "none"]
    ELSE LET line == strip(Head(lines))
         IN  IF line # <<>> /\ Head(line) = ">"
             THEN IF ~sequence_none /\ sequence # <<>>
                  THEN ReadContigsLoop(Tail(lines), Append(hdrs, line),
                                       Append(seqs, sequence), <<>>, TRUE)
                  ELSE ReadContigsLoop(Tail(lines), Append(hdrs, line),
                                       seqs, sequence, sequence_none)
             ELSE IF sequence_none
                  THEN [headers |-> hdrs, sequences |-> seqs, err |-> "TypeError"]
                  ELSE ReadContigsLoop(Tail(lines), hdrs, seqs,
                                       sequence \o Upper(line), FALSE)

\* ReadContigs, the sequence file holding lines
ReadContigsOf(lines) == ReadContigsLoop(lines, <<>>, <<>>, <<>>, FALSE)

(***************************************************************************)
(* FindMotif._GetInformational                                             *)
(***************************************************************************)
\* q * log2(q) for the fraction q = <<num, den>>, in units of 1/Scale
QLog2Q(qv) ==
    (((qv[1] \div 1000) * Log2Frac(qv[1], qv[2])) \div (qv[2] \div 1000))

\* information started at 0, without the 2 bits of a four-letter alphabet
RECURSIVE InformationAtFromZero(_, _, _)
InformationAtFromZero(q, position, i) ==
    IF i = 0 THEN 0
    ELSE InformationAtFromZero(q, position, i - 1)
            + QLog2Q(q[<<SymOrder[i], position>>])

\* information after the loop over the symbols at one position
RECURSIVE InformationAt(_, _, _)
InformationAt(q, position, i) ==
    IF i = 0 THEN InfoBase
    ELSE InformationAt(q, position, i - 1) + QLog2Q(q[<<SymOrder[i], position>>])

\* the loop over the positions position .. motif_len - 1, appending to info
RECURSIVE GetInformationalLoop(_, _, _, _)
GetInformationalLoop(q, motif_len, position, info) ==
    IF position >= motif_len
    THEN [informational |-> info, err |-> "none"]
    ELSE IF \E i \in 1..Len(SymOrder) : <<SymOrder[i], position>> \notin DOMAIN q
    THEN [informational |-> info, err |-> "KeyError"]
    ELSE IF InformationAt(q, position, Len(SymOrder)) > InfoThreshold
    THEN GetInformationalLoop(q, motif_len, position + 1, Append(info, position))
    ELSE GetInformationalLoop(q, motif_len, position + 1, info)

\* _GetInformational on the object self: range(None) raises TypeError
GetInformationalOn(self) ==
    IF self.motif_len = None
    THEN [obj |-> self, err |-> "TypeError"]
    ELSE LET r == GetInformationalLoop(self.q, self.motif_len, 0,
                                       self.informational)
         IN  [obj |-> [self EXCEPT !.informational = r.informational],
              err |-> r.err]

(***************************************************************************)
(* FindMotif.MakePSSM                                                      *)
(***************************************************************************)
\* B arguments: a number in units of 1/BScale, or the string 'SQRTN'
NumB(b) == [kind |-> "num", val |-> b]
SqrtN == [kind |-> "SQRTN", val |-> 0]
BArgs == {NumB(0), NumB(DefaultB), SqrtN}

\* counts.setdefault((symbol, position), 0) after the counting loop
CountOf(seqs, symbol, position) ==
    Cardinality({i \in 1..Len(seqs) :
                    position < Len(seqs[i]) /\ seqs[i][position + 1] = symbol})

\* (cur_count + B * bg_freq[symbol]) / (N + B) as <<numerator, denominator>>
QValue(cur_count, B, bg, N) ==
    <<cur_count * BScale * BgScale + B * bg, (N * BScale + B) * BgScale>>

\* the k-th (symbol, position) pair of the nested loop, k = 1, 2, ...
PairAt(k, motif_len) ==
    <<SymOrder[((k - 1) \div motif_len) + 1], (k - 1) % motif_len>>

\* the number of pairs the nested loop completes before log() raises
RECURSIVE PairsDone(_, _, _, _)
PairsDone(self, B, k, total) ==
    IF k > total THEN total
    ELSE LET pr == PairAt(k, self.motif_len)
             qv == QValue(CountOf(self.motif_sequences, pr[1], pr[2]), B,
                          self.bg_freq[pr[1]], self.N)
         IN  IF qv[1] = 0 THEN k - 1 ELSE PairsDone(self, B, k + 1, total)

\* MakePSSM(B) on the object self, the motif file holding lines
MakePSSMOn(self, Barg, lines) ==
    LET g == IF self.motif_sequences = <<>> THEN GetMotifOn(self, lines)
             ELSE [obj |-> self, err |-> "none"]
        s1 == g.obj
        B == IF Barg.kind = "SQRTN" THEN SqrtB(s1.N) ELSE Barg.val
    IN  IF g.err # "none" THEN g
        ELSE IF s1.motif_len = None THEN [obj |-> s1, err |-> "TypeError"]
        ELSE LET total == Len(SymOrder) * s1.motif_len
                 done == PairsDone(s1, B, 1, total)
                 keys == {PairAt(k, s1.motif_len) : k \in 1..done}
                 newq == [pr \in keys |->
                            QValue(CountOf(s1.motif_sequences, pr[1], pr[2]), B,
                                   s1.bg_freq[pr[1]], s1.N)]
                 newlogq == [pr \in keys |-> LnFrac(newq[pr][1], newq[pr][2])]
                 s2 == [s1 EXCEPT !.log_q = DictUpdate(s1.log_q, newlogq),
                                  !.q = DictUpdate(s1.q, newq)]
             IN  IF done < total THEN [obj |-> s2, err |-> "ValueError"]
                 ELSE GetInformationalOn(s2)

(***************************************************************************)
(* FindMotif.AnalyzeSequences                                              *)
(***************************************************************************)
\* a hit is the tuple <<region_score, header, start_position, region>>

\* a < b when only the score is compared (a sort with key=itemgetter(0))
HitLessByScore(a, b) == a[1] < b[1]

\* a < b for Python tuples of that shape
HitLess(a, b) ==
    IF a[1] # b[1] THEN a[1] < b[1]
    ELSE IF a[2] # b[2] THEN StrLess(a[2], b[2])
    ELSE IF a[3] # b[3] THEN a[3] < b[3]
    ELSE StrLess(a[4], b[4])

\* the place of x in a list already in descending order (a stable sort)
RECURSIVE InsertDesc(_, _)
InsertDesc(x, sorted) ==
    IF sorted = <<>> THEN <<x>>
    ELSE IF HitLess(Head(sorted), x) THEN <<x>> \o sorted
    ELSE <<Head(sorted)>> \o InsertDesc(x, Tail(sorted))

\* scores.sort(reverse=True)
RECURSIVE SortReverse(_)
SortReverse(scores) ==
    IF scores = <<>> THEN <<>>
    ELSE InsertDesc(scores[Len(scores)],
                    SortReverse(SubSeq(scores, 1, Len(scores) - 1)))

\* del scores[:number_of_hits], the slice on the wrong side
DelUpTo(scores, number_of_hits) ==
    SubSeq(scores, number_of_hits + 1, Len(scores))

\* del scores[number_of_hits:]
DelFrom(scores, number_of_hits) ==
    LET n == Len(scores)
        keep == IF number_of_hits >= 0
                THEN (IF number_of_hits < n THEN number_of_hits ELSE n)
                ELSE (IF n + number_of_hits > 0 THEN n + number_of_hits ELSE 0)
    IN  SubSeq(scores, 1, keep)

\* region_score after the loop over the first i entries of informational
RECURSIVE RegionScore(_, _, _)
RegionScore(self, region, i) ==
    IF i = 0 THEN [score |-> 0, err |-> "none"]
    ELSE LET r == RegionScore(self, region, i - 1)
             position == self.informational[i]
             symbol == region[position + 1]
         IN  IF r.err # "none" THEN r
             ELSE IF <<symbol, position>> \notin DOMAIN self.log_q
                     \/ symbol \notin DOMAIN self.log_p
             THEN [score |-> r.score, err |-> "KeyError"]
             ELSE [score |-> r.score + self.log_q[<<symbol, position>>]
                                     - self.log_p[symbol],
                   err |-> "none"]

\* the end of range(len(sequence) - motif_len)
RangeEnd(sequence_len, motif_len) == sequence_len - motif_len

\* line 307: the test-mode limit that ends the inner loop
TestModeBreak(start_position, seq_num) ==
    start_position > TestMaxPosition \/ seq_num > TestMaxSeqNum

\* lines 280-309, the body of the inner loop for one window: stop says that
\* the loop ends after it, by an exception or by the break
ScanWindow(self, hdrs, region, seq_num, start_position, threshold, scores) ==
    LET r == RegionScore(self, region, Len(self.informational))
        hit == r.score > threshold
        scores2 == IF hit
                   THEN Append(scores, <<r.score, hdrs[seq_num + 1],
                                         start_position, region>>)
                   ELSE scores
    IN  IF r.err # "none" THEN [scores |-> scores, err |-> r.err, stop |-> TRUE]
        ELSE IF hit /\ seq_num >= Len(hdrs)
        THEN [scores |-> scores, err |-> "IndexError", stop |-> TRUE]
        ELSE [scores |-> scores2, err |-> "none",
              stop |-> TestModeBreak(start_position, seq_num)]

\* the inner loop of the scan, from start_position on
RECURSIVE ScanPositions(_, _, _, _, _, _, _)
ScanPositions(self, hdrs, sequence, seq_num, start_position, threshold, scores) ==
    IF start_position >= RangeEnd(Len(sequence), self.motif_len)
    THEN [scores |-> scores, err |-> "none"]
    ELSE LET w == ScanWindow(self, hdrs,
                             SubSeq(sequence, start_position + 1,
                                    start_position + self.motif_len),
                             seq_num, start_position, threshold, scores)
         IN  IF w.stop THEN [scores |-> w.scores, err |-> w.err]
             ELSE ScanPositions(self, hdrs, sequence, seq_num,
                                start_position + 1, threshold, w.scores)

\* the outer loop of the scan, from seq_num on
RECURSIVE ScanSequences(_, _, _, _, _, _)
ScanSequences(self, hdrs, seqs, seq_num, threshold, scores) ==
    IF seq_num >= Len(seqs) THEN [scores |-> scores, err |-> "none"]
    ELSE LET r == ScanPositions(self, hdrs, seqs[seq_num + 1], seq_num, 0,
                                threshold, scores)
         IN  IF r.err # "none" THEN r
             ELSE ScanSequences(self, hdrs, seqs, seq_num + 1, threshold,
                                r.scores)

\* lines 262-265: MakePSSM() with the default B when log_q is empty
AutoMakePSSM(self, mlines) ==
    IF self.log_q = EmptyDict
    THEN MakePSSMOn(self, NumB(DefaultB), mlines)
    ELSE [obj |-> self, err |-> "none"]

\* lines 269-309: the scan of the contigs rc that ReadContigs returned
Scan(self, rc, threshold) ==
    ScanSequences(self, rc.headers, rc.sequences, 0, threshold, <<>>)

\* AnalyzeSequences(threshold, number_of_hits): m is the outcome of the
\* automatic build, rc of ReadContigs, sc of the scan
AnalyzeSequencesOn(m, rc, sc, number_of_hits) ==
    LET nothing == [headers |-> <<>>, sequences |-> <<>>, found |-> <<>>,
                    result |-> <<>>]
    IN  IF m.err # "none"
        THEN [obj |-> m.obj, err |-> m.err] @@ nothing
        ELSE IF rc.err # "none"
        THEN [obj |-> m.obj, err |-> rc.err] @@ nothing
        ELSE IF sc.err # "none"
        THEN [obj |-> m.obj, err |-> sc.err,
              headers |-> rc.headers, sequences |-> rc.sequences,
              found |-> <<>>, result |-> <<>>]
        ELSE [obj |-> m.obj, err |-> "none",
              headers |-> rc.headers, sequences |-> rc.sequences,
              found |-> sc.scores,
              result |-> DelFrom(SortReverse(sc.scores), number_of_hits)]

(***************************************************************************)
(* Inputs: the contents of the two files and the arguments of the calls.   *)
(***************************************************************************)
SeqsUpTo(S, n) == UNION {[1..k -> S] : k \in 0..n}

\* lines "m <motif>" with motifs of two widths and of either case, and a
\* line that is a motif with no whitespace before it
MotifFileLines ==
    {<<"m", " ", "A">>, <<"m", " ", "A", "g">>, <<"m", " ", "A", "A">>, <<"A">>}
MotifFiles == SeqsUpTo(MotifFileLines, MaxMotifLines) \ {<<>>}

\* a header line, sequence lines of either case, the ambiguity code N
HeaderLine == <<">", "h">>
SeqFileLines == {HeaderLine, <<"A", "g">>, <<"N">>}

\* sequence files start with a header line
SeqFiles == {<<HeaderLine>> \o rest : rest \in SeqsUpTo(SeqFileLines, MaxSeqLines - 1)}

Thresholds == {MainThreshold, 0}
HitCounts == 1..MaxK

(***************************************************************************)
(* The state: one process that constructs a FindMotif and calls methods.   *)
(***************************************************************************)
VARIABLES
    pc,             \* "new": not constructed, "ready", "done": process ended
    exit_status,    \* None while the process runs, else its exit status
    error,          \* the exception that ended the process, or "none"
    self,           \* the fields of the FindMotif instance
    op,             \* the last call and its arguments
    bg_arg,         \* the bg_freq argument of the constructor
    motif_file,     \* the lines of the motif file, <<>> before it is read
    sequence_file,  \* the lines of the sequence file, <<>> before it is read
    headers,        \* the headers the last call got from ReadContigs
    sequences,      \* the sequences the last call got from ReadContigs
    found,          \* the scores list of the last call before its sort
    result,         \* the list the last call returned
    start_position  \* the loop variable of a scan in progress, else None

vars == <<pc, exit_status, error, self, op, bg_arg, motif_file,
          sequence_file, headers, sequences, found, result, start_position>>

Call(name, B, threshold, K) ==
    [name |-> name, B |-> B, threshold |-> threshold, K |-> K]

Init ==
    /\ pc = "new"
    /\ exit_status = None
    /\ error = "none"
    /\ self = UnsetObject
    /\ op = Call("none", NumB(0), 0, 0)
    /\ bg_arg = EmptyDict
    /\ motif_file = <<>>
    /\ sequence_file = <<>>
    /\ headers = <<>>
    /\ sequences = <<>>
    /\ found = <<>>
    /\ result = <<>>
    /\ start_position = None

\* the exit status of the process after a call ended with err: exit() raises
\* SystemExit(None), any other exception is uncaught
StatusOf(err) ==
    IF err = "none" THEN None ELSE IF err = "SystemExit" THEN 0 ELSE 1

\* what every call does to the process
Outcome(name, B, threshold, K, r) ==
    /\ self' = r.obj
    /\ error' = r.err
    /\ exit_status' = StatusOf(r.err)
    /\ pc' = IF r.err = "none" THEN "ready" ELSE "done"
    /\ op' = Call(name, B, threshold, K)

\* a call that does not read contigs or scan returns none of these
NoContigs == headers' = <<>> /\ sequences' = <<>>
NoHits == found' = <<>> /\ result' = <<>>

Construct ==
    /\ pc = "new"
    /\ \E bg \in BgArgs :
          /\ bg_arg' = bg
          /\ Outcome("__init__", NumB(0), 0, 0, InitObject(bg))
    /\ UNCHANGED <<motif_file, sequence_file, headers, sequences, found, result,
                   start_position>>

\* the caller builds no further model once informational is MaxInformational long
CanBuild == pc = "ready" /\ Len(self.informational) < MaxInformational

\* the contents of a file are chosen when the file is first read
MotifFilesFor(reads) ==
    IF reads /\ motif_file = <<>> THEN MotifFiles ELSE {motif_file}

SeqFilesFor(reads) ==
    IF reads /\ sequence_file = <<>> THEN SeqFiles ELSE {sequence_file}

GetMotif ==
    /\ pc = "ready"
    /\ \E lines \in MotifFilesFor(TRUE) :
          /\ motif_file' = lines
          /\ Outcome("GetMotif", NumB(0), 0, 0, GetMotifOn(self, lines))
    /\ NoContigs /\ NoHits
    /\ UNCHANGED <<bg_arg, sequence_file, start_position>>

ReadContigs ==
    /\ pc = "ready"
    /\ \E lines \in SeqFilesFor(TRUE) : \E r \in {ReadContigsOf(lines)} :
          /\ sequence_file' = lines
          /\ headers' = (IF r.err = "none" THEN r.headers ELSE <<>>)
          /\ sequences' = (IF r.err = "none" THEN r.sequences ELSE <<>>)
          /\ Outcome("ReadContigs", NumB(0), 0, 0, [obj |-> self, err |-> r.err])
    /\ NoHits
    /\ UNCHANGED <<bg_arg, motif_file, start_position>>

MakePSSM ==
    /\ CanBuild
    /\ \E B \in BArgs, lines \in MotifFilesFor(self.motif_sequences = <<>>) :
          /\ motif_file' = lines
          /\ Outcome("MakePSSM", B, 0, 0, MakePSSMOn(self, B, lines))
    /\ NoContigs /\ NoHits
    /\ UNCHANGED <<bg_arg, sequence_file, start_position>>

GetInformational ==
    /\ CanBuild
    /\ Outcome("_GetInformational", NumB(0), 0, 0, GetInformationalOn(self))
    /\ NoContigs /\ NoHits
    /\ UNCHANGED <<bg_arg, motif_file, sequence_file, start_position>>

AnalyzeSequences ==
    /\ pc = "ready"
    /\ \E mlines \in MotifFilesFor(self.log_q = EmptyDict
                                   /\ self.motif_sequences = <<>>) :
       \E m \in {AutoMakePSSM(self, mlines)} :
       \E slines \in SeqFilesFor(m.err = "none") :
       \E rc \in {ReadContigsOf(slines)} :
       \E threshold \in Thresholds :
       \E sc \in {IF m.err = "none" /\ rc.err = "none"
                  THEN Scan(m.obj, rc, threshold)
                  ELSE [scores |-> <<>>, err |-> "none"]} :
       \E K \in HitCounts : \E r \in {AnalyzeSequencesOn(m, rc, sc, K)} :
          /\ motif_file' = mlines
          /\ sequence_file' = slines
          /\ headers' = r.headers
          /\ sequences' = r.sequences
          /\ found' = r.found
          /\ result' = r.result
          /\ Outcome("AnalyzeSequences", NumB(DefaultB), threshold, K,
                     [obj |-> r.obj, err |-> r.err])
    /\ UNCHANGED <<bg_arg, start_position>>

Next ==
    \/ Construct
    \/ GetMotif
    \/ ReadContigs
    \/ MakePSSM
    \/ GetInformational
    \/ AnalyzeSequences

Spec == Init /\ [][Next]_vars

(***************************************************************************)
(* The scan of one long contig, a window at a step.  A long run of symbols *)
(* is held as a record: its length and the offset of its one 'A', every    *)
(* other symbol being 'T'.  The process is at the head of the scan loop of *)
(* AnalyzeSequences, after MakePSSM(0.1) on the motif 'A' and after        *)
(* ReadContigs has returned one header and the contig.                     *)
(***************************************************************************)
LongContig(len, mark) == [len |-> len, mark |-> mark]

\* contigs that end before the test-mode limit and beyond it
LongContigs ==
    {LongContig(3, 1),
     LongContig(TestMaxPosition + 4, TestMaxPosition + 1),
     LongContig(TestMaxPosition + 4, TestMaxPosition + 2)}

\* sequence[a:b] of a long contig, 0 <= a <= b <= len
LongSlice(c, a, b) ==
    [i \in 1..(b - a) |-> IF a + i - 1 = c.mark THEN "A" ELSE "T"]

LongMotifFile == <<<<"m", " ", "A">>>>

\* the object after FindMotif() and MakePSSM(0.1) on that motif file
LongModel ==
    MakePSSMOn(InitObject(EmptyDict).obj, NumB(DefaultB), LongMotifFile).obj

LongInit ==
    /\ pc = "scan"
    /\ exit_status = None
    /\ error = "none"
    /\ self = LongModel
    /\ \E K \in HitCounts : op = Call("AnalyzeSequences", NumB(DefaultB), 0, K)
    /\ bg_arg = EmptyDict
    /\ motif_file = LongMotifFile
    /\ \E c \in LongContigs :
          /\ sequence_file = <<HeaderLine, c>>
          /\ sequences = <<c>>
    /\ headers = <<HeaderLine>>
    /\ found = <<>>
    /\ result = <<>>
    /\ start_position = 0

\* one pass of the inner loop (lines 273-309) over the contig seq_num = 0
ScanStep ==
    /\ pc = "scan"
    /\ start_position < RangeEnd(sequences[1].len, self.motif_len)
    /\ LET w == ScanWindow(self, headers,
                           LongSlice(sequences[1], start_position,
                                     start_position + self.motif_len),
                           0, start_position, op.threshold, found)
       IN  /\ found' = w.scores
           /\ error' = w.err
           /\ exit_status' = StatusOf(w.err)
           /\ pc' = IF w.err # "none" THEN "done"
                    ELSE IF w.stop THEN "sort" ELSE "scan"
           /\ start_position' = IF w.stop THEN start_position
                                ELSE start_position + 1
    /\ UNCHANGED <<self, op, bg_arg, motif_file, sequence_file, headers,
                   sequences, result>>

\* range() is exhausted: the inner loop ends, and the outer one with it
ScanEnd ==
    /\ pc = "scan"
    /\ start_position >= RangeEnd(sequences[1].len, self.motif_len)
    /\ pc' = "sort"
    /\ UNCHANGED <<exit_status, error, self, op, bg_arg, motif_file,
                   sequence_file, headers, sequences, found, result,
                   start_position>>

\* lines 316-333: sort, cut to number_of_hits, return
SortAndReturn ==
    /\ pc = "sort"
    /\ result' = DelFrom(SortReverse(found), op.K)
    /\ pc' = "ready"
    /\ start_position' = None
    /\ UNCHANGED <<exit_status, error, self, op, bg_arg, motif_file,
                   sequence_file, headers, sequences, found>>

LongNext ==
    \/ ScanStep
    \/ ScanEnd
    \/ SortAndReturn

LongSpec == LongInit /\ [][LongNext]_vars

(***************************************************************************)
(* Vocabulary of the properties.                                           *)
(***************************************************************************)
Range(f) == {f[i] : i \in DOMAIN f}

\* the last call was AnalyzeSequences and it returned its list
Returned == pc = "ready" /\ op.name = "AnalyzeSequences"

\* the window of length motif_len at start offset o of a contig
Window(contig, o) == SubSeq(contig, o + 1, o + self.motif_len)

\* log_q[(symbol, p)] - log_p[symbol], the weight of a symbol at position p
Weight(symbol, p) == self.log_q[<<symbol, p>>] - self.log_p[symbol]

RECURSIVE SumWeights(_, _)
SumWeights(window, positions) ==
    IF positions = {} THEN 0
    ELSE LET p == CHOOSE x \in positions : TRUE
         IN  Weight(window[p + 1], p) + SumWeights(window, positions \ {p})

\* every symbol of the window has a weight at every listed position
Scorable(window, positions) ==
    \A p \in positions : <<window[p + 1], p>> \in DOMAIN self.log_q
                         /\ window[p + 1] \in DOMAIN self.log_p

\* the score of a window: each informational position taken once
OnceScore(window) == SumWeights(window, Range(self.informational))

\* the length of the longest contig read
MaxContigLen ==
    IF sequences = <<>> THEN 0
    ELSE CHOOSE n \in {Len(sequences[i]) : i \in DOMAIN sequences} :
            \A i \in DOMAIN sequences : Len(sequences[i]) <= n

\* the hits the windows of all contigs give at a threshold
WindowHits(threshold) ==
    {<<OnceScore(Window(sequences[i], o)), headers[i], o, Window(sequences[i], o)>> :
        <<i, o>> \in {io \in (DOMAIN sequences) \X (0..MaxContigLen) :
                        /\ io[2] + self.motif_len <= Len(sequences[io[1]])
                        /\ io[1] <= Len(headers)
                        /\ Scorable(Window(sequences[io[1]], io[2]),
                                    Range(self.informational))
                        /\ OnceScore(Window(sequences[io[1]], io[2])) > threshold}}

(***************************************************************************)
(* C1: with K at least the number of qualifying windows, AnalyzeSequences  *)
(* returns exactly the hits of the windows at the start offsets            *)
(* 0 .. len(contig) - L whose score is above the threshold, the window at  *)
(* the last offset len(contig) - L included.                               *)
(***************************************************************************)
C1_AllWindowsReported ==
    (Returned /\ Cardinality(WindowHits(op.threshold)) <= op.K)
        => Range(result) = WindowHits(op.threshold)

(***************************************************************************)
(* C2: the score of every hit AnalyzeSequences returns is the sum, over    *)
(* each informational position taken once, of                              *)
(* log_q[(window[p], p)] - log_p[window[p]].                               *)
(***************************************************************************)
C2_ScoreSumsEachPositionOnce ==
    Returned => \A i \in DOMAIN result : result[i][1] = OnceScore(result[i][4])

(***************************************************************************)
(* C3: for a positive K the returned list has min(K, recorded hits)        *)
(* entries, all of them recorded hits, in non-increasing order of score,   *)
(* and no recorded hit left out has a higher score than a returned one.    *)
(***************************************************************************)
C3_TopKByScore ==
    Returned =>
        /\ Len(result) = (IF op.K < Len(found) THEN op.K ELSE Len(found))
        /\ Range(result) \subseteq Range(found)
        /\ \A i, j \in DOMAIN result : i < j => result[i][1] >= result[j][1]
        /\ \A f \in Range(found) \ Range(result) :
              \A r \in Range(result) : f[1] <= r[1]

\* a scan that recorded more hits than K, of different scores
C3_Witness ==
    /\ Returned
    /\ Len(found) > op.K
    /\ \E f, g \in Range(found) : f[1] < g[1]
    /\ \E f \in Range(found) \ Range(result) :
          \E r \in Range(result) : f[1] < r[1]

(***************************************************************************)
(* C4 as claimed: hits of equal score are in ascending order of header,    *)
(* start offset and window text, so of two equal-score hits of one contig  *)
(* the one with the smaller start offset comes first.                      *)
(***************************************************************************)
C4_TiesAscending ==
    Returned =>
        \A i, j \in DOMAIN result :
            (i < j /\ result[i][1] = result[j][1] /\ result[i][2] = result[j][2])
                => result[i][3] < result[j][3]

\* (header, offset, window) of a comes after that of b in Python's order
RestGreater(a, b) ==
    \/ StrLess(b[2], a[2])
    \/ a[2] = b[2] /\ a[3] > b[3]
    \/ a[2] = b[2] /\ a[3] = b[3] /\ StrLess(b[4], a[4])

(***************************************************************************)
(* C4 as amended: hits of equal score are in descending order of header,   *)
(* then start offset, then window text (the reverse sort is of the whole   *)
(* tuple), so of two equal-score hits of one contig the one with the       *)
(* larger start offset comes first, whatever the order they were found in. *)
(***************************************************************************)
C4_TiesDescending ==
    Returned =>
        \A i, j \in DOMAIN result :
            (i < j /\ result[i][1] = result[j][1])
                => /\ RestGreater(result[i], result[j])
                   /\ result[i][2] = result[j][2] => result[i][3] > result[j][3]

\* two hits of equal score were returned, found in ascending offset order
C4_Witness ==
    /\ Returned
    /\ \E i, j \in DOMAIN result : i < j /\ result[i][1] = result[j][1]
    /\ \E i, j \in DOMAIN found :
          i < j /\ found[i][1] = found[j][1] /\ found[i][3] < found[j][3]
             /\ found[i] \in Range(result) /\ found[j] \in Range(result)

(***************************************************************************)
(* C5: for a sequence file of k >= 1 records ReadContigs completes and     *)
(* returns k headers and k sequences, sequence i being the uppercase       *)
(* concatenation of the sequence lines of record i.                        *)
(***************************************************************************)
IsHeader(line) == line # <<>> /\ Head(line) = ">"

\* the indices of the header lines of a file
HeaderIndices(lines) == {i \in DOMAIN lines : IsHeader(strip(lines[i]))}

\* the uppercase concatenation of the lines i+1 .. of a record
RECURSIVE RecordText(_, _)
RecordText(lines, i) ==
    IF i > Len(lines) \/ IsHeader(strip(lines[i])) THEN <<>>
    ELSE Upper(strip(lines[i])) \o RecordText(lines, i + 1)

\* the texts of the records of a file, as a set of <<header index, text>>
RecordTexts(lines) ==
    {<<Cardinality({j \in HeaderIndices(lines) : j <= i}), RecordText(lines, i + 1)>> :
        i \in HeaderIndices(lines)}

C5_ReadContigsRecords ==
    op.name = "ReadContigs" =>
        /\ error = "none"
        /\ Len(headers) = Cardinality(HeaderIndices(sequence_file))
        /\ Len(sequences) = Cardinality(HeaderIndices(sequence_file))
        /\ \A r \in RecordTexts(sequence_file) : sequences[r[1]] = r[2]

(***************************************************************************)
(* C6: each header ReadContigs returns is the text of the record's marker  *)
(* line with the leading '>' stripped.                                     *)
(***************************************************************************)
C6_HeaderMarkerStripped ==
    (op.name = "ReadContigs" /\ error = "none") =>
        \A i \in HeaderIndices(sequence_file) :
            LET k == Cardinality({j \in HeaderIndices(sequence_file) : j <= i})
            IN  k \in DOMAIN headers /\ headers[k] = Tail(strip(sequence_file[i]))

(***************************************************************************)
(* C7: AnalyzeSequences does not terminate abnormally when a contig holds  *)
(* a symbol that is not in the model's alphabet: the scan completes.       *)
(***************************************************************************)
C7_UnknownSymbolNoCrash ==
    (/\ op.name = "AnalyzeSequences"
     /\ \E i \in DOMAIN sequences : \E j \in DOMAIN sequences[i] :
           sequences[i][j] \notin DOMAIN self.bg_freq)
        => error = "none"

(***************************************************************************)
(* C8: for every numeric B >= 0, B = 0 included, and every non-empty       *)
(* rectangular training set, MakePSSM completes and defines log_q and q    *)
(* for every symbol and position, q = (count + B * background) / (N + B).  *)
(***************************************************************************)
C8_MakePSSMTotal ==
    (/\ op.name = "MakePSSM"
     /\ op.B.kind = "num"
     /\ error # "SystemExit"
     /\ self.N >= 1)
        => /\ error = "none"
           /\ \A s \in DOMAIN self.bg_freq : \A p \in 0..(self.motif_len - 1) :
                 /\ <<s, p>> \in DOMAIN self.log_q
                 /\ <<s, p>> \in DOMAIN self.q
                 /\ self.q[<<s, p>>] =
                       <<CountOf(self.motif_sequences, s, p) * BScale * BgScale
                            + op.B.val * self.bg_freq[s],
                         (self.N * BScale + op.B.val) * BgScale>>

(***************************************************************************)
(* C9: constructing FindMotif with a non-empty bg_freq table succeeds and  *)
(* the model uses that table: log_p[s] = ln(bg_freq[s]) for its symbols.   *)
(***************************************************************************)
C9_SuppliedBackgroundUsed ==
    (pc # "new" /\ bg_arg # EmptyDict)
        => /\ error # "AttributeError"
           /\ self.bg_freq = bg_arg
           /\ \A s \in DOMAIN bg_arg :
                 s \in DOMAIN self.log_p
                 /\ self.log_p[s] = LnFrac(bg_arg[s], BgScale)

(***************************************************************************)
(* C10: when the motif file holds a motif whose length differs from that   *)
(* of the first, GetMotif ends the process with a non-zero exit status     *)
(* before any model is built: log_q and q stay empty.                      *)
(***************************************************************************)
\* the lengths of the motifs the lines of a motif file hold
MotifWidths(lines) ==
    {Len(MotifMatch(strip(lines[i]))) : i \in DOMAIN lines} \ {0}

C10_WidthMismatchFatal ==
    (motif_file # <<>> /\ Cardinality(MotifWidths(motif_file)) > 1)
        => /\ pc = "done"
           /\ exit_status > 0
           /\ self.log_q = EmptyDict
           /\ self.q = EmptyDict

(***************************************************************************)
(* C11: when the motif file yields no motif (N = 0), a MakePSSM call, for  *)
(* every B and for 'SQRTN', and an AnalyzeSequences call that builds the   *)
(* model itself end the process with an error: log_q and q stay empty, no  *)
(* sequence file is read, no window is scored and nothing is returned.     *)
(***************************************************************************)
\* a motif file that has been read, no line of which holds a motif
NoMotifsIn(lines) == lines # <<>> /\ MotifWidths(lines) = {}

NoMotifs == NoMotifsIn(motif_file)

C11_NoMotifsFatal ==
    [][(/\ pc = "ready"
        /\ op'.name \in {"MakePSSM", "AnalyzeSequences"}
        /\ NoMotifsIn(motif_file'))
        => /\ pc' = "done"
           /\ exit_status' > 0
           /\ self'.log_q = EmptyDict
           /\ self'.q = EmptyDict
           /\ sequence_file' = sequence_file
           /\ headers' = <<>> /\ sequences' = <<>>
           /\ found' = <<>> /\ result' = <<>>]_vars

\* AnalyzeSequences built the model itself from a file without motifs and
\* the process ended before any sequence file was read
C11_Witness ==
    /\ NoMotifs
    /\ op.name = "AnalyzeSequences"
    /\ pc = "done"
    /\ error = "TypeError"
    /\ sequence_file = <<>>

(***************************************************************************)
(* C12: after MakePSSM on a training set of N >= 1 motifs, for every B >= 0 *)
(* (B = 0 and 'SQRTN' included) and every position p in [0, L), q is       *)
(* defined for every symbol of the alphabet and the q[(s, p)] sum to 1.    *)
(***************************************************************************)
\* the sum of the numerators of q[(s, p)] over the first i symbols
RECURSIVE SumNumerators(_, _)
SumNumerators(p, i) ==
    IF i = 0 THEN 0
    ELSE self.q[<<SymOrder[i], p>>][1] + SumNumerators(p, i - 1)

\* the q[(s, p)] of position p are all defined, over one denominator, and
\* their numerators sum to it
SumsToOne(p) ==
    /\ \A i \in DOMAIN SymOrder : <<SymOrder[i], p>> \in DOMAIN self.q
    /\ \A i \in DOMAIN SymOrder :
          self.q[<<SymOrder[i], p>>][2] = self.q[<<SymOrder[1], p>>][2]
    /\ SumNumerators(p, Len(SymOrder)) = self.q[<<SymOrder[1], p>>][2]

C12_FrequenciesSumToOne ==
    (/\ op.name = "MakePSSM"
     /\ error # "SystemExit"
     /\ self.N >= 1)
        => \A p \in 0..(self.motif_len - 1) : SumsToOne(p)

(***************************************************************************)
(* C13 as claimed: after a MakePSSM call that completes, for any B and for *)
(* 'SQRTN', every fully conserved position (one symbol at that position in *)
(* all N >= 1 motifs) is in the informational list.                        *)
(***************************************************************************)
\* one symbol stands at position p in all N motifs
Conserved(p) ==
    /\ self.N >= 1
    /\ p \in 0..(self.motif_len - 1)
    /\ \E i \in DOMAIN SymOrder :
          CountOf(self.motif_sequences, SymOrder[i], p) = self.N

C13_ConservedAlwaysInformational ==
    (op.name = "MakePSSM" /\ error = "none")
        => \A p \in 0..(self.motif_len - 1) :
              Conserved(p) => p \in Range(self.informational)

(***************************************************************************)
(* C13 as amended: MakePSSM with the default B = 0.1 completes for every   *)
(* training set of N >= 1 motifs and puts every fully conserved position   *)
(* in the informational list.                                              *)
(***************************************************************************)
C13_ConservedInformationalDefaultB ==
    (/\ op.name = "MakePSSM"
     /\ op.B = NumB(DefaultB)
     /\ error # "SystemExit"
     /\ self.N >= 1)
        => /\ error = "none"
           /\ \A p \in 0..(self.motif_len - 1) :
                 Conserved(p) => p \in Range(self.informational)

\* MakePSSM(0.1) on two motifs of width 2: position 1 is conserved and listed
C13_Witness ==
    /\ op.name = "MakePSSM"
    /\ op.B = NumB(DefaultB)
    /\ error = "none"
    /\ self.N >= 2
    /\ self.motif_len = 2
    /\ Conserved(1)
    /\ 1 \in Range(self.informational)

(***************************************************************************)
(* C14: the informational list is a function of the model alone.  When it  *)
(* holds exactly the positions of [0, L) whose information content exceeds *)
(* 1.25 bits, each once, it still does after a further _GetInformational   *)
(* call, after MakePSSM is called again with the same B, and after         *)
(* AnalyzeSequences, the training set and the background being unchanged.  *)
(***************************************************************************)
\* the positions whose information content exceeds the threshold
InformativePositions ==
    {p \in 0..(self.motif_len - 1) :
        InformationAt(self.q, p, Len(SymOrder)) > InfoThreshold}

\* a model has been built and the list holds those positions, each once
ExactInformational ==
    /\ pc = "ready"
    /\ self.q # EmptyDict
    /\ Range(self.informational) = InformativePositions
    /\ \A i, j \in DOMAIN self.informational :
          self.informational[i] = self.informational[j] => i = j

\* the step is a call that leaves training set, background and B as they were
SameModelCall ==
    \/ op'.name = "_GetInformational"
    \/ op'.name = "AnalyzeSequences"
    \/ op'.name = "MakePSSM" /\ op.name = "MakePSSM" /\ op'.B = op.B

C14_NoHiddenState ==
    [][(ExactInformational /\ SameModelCall /\ pc' = "ready")
          => ExactInformational']_vars

(***************************************************************************)
(* C15: no window is left unscored because of its offset: when the scan of *)
(* a contig has returned, every window at a start offset the scan loop     *)
(* ranges over (also one beyond 50,000) whose score is above the threshold *)
(* is among the recorded hits, and so a candidate for the top K.           *)
(***************************************************************************)
\* the hit the window at offset o of the long contig c gives
LongHit(c, o) ==
    LET window == LongSlice(c, o, o + self.motif_len)
    IN  <<OnceScore(window), headers[1], o, window>>

C15_NoTestModeLimit ==
    (pc = "ready" /\ op.name = "AnalyzeSequences")
        => LET c == sequences[1]
           IN  (/\ c.mark < RangeEnd(c.len, self.motif_len)
                /\ LongHit(c, c.mark)[1] > op.threshold)
                  => LongHit(c, c.mark) \in Range(found)

====
